---- MODULE Spec2Model ----
(***************************************************************************)
(* Renovate: the lookup worker's generateUpdate (workers/repository/       *)
(* process/lookup/generate.ts, src/unnamed/part_000 lines 233-350).        *)
(*                                                                         *)
(* One invocation of generateUpdate is a frame: its arguments, the update  *)
(* object it builds field by field, and its position (pc).  JavaScript     *)
(* objects are functions whose domain is the set of fields present, so an  *)
(* absent field is a field outside the domain.  The versioning scheme and  *)
(* the merge-confidence service are collaborators whose answers are drawn  *)
(* from small sets at the call that asks for them; every call is logged.   *)
(***************************************************************************)
EXTENDS Integers, Sequences, FiniteSets, TLC

VARIABLES frames, worker, applying, resolving

vars == <<frames, worker, applying, resolving>>

----------------------------------------------------------------------------
(* Bounds of the model *)

\* version parts range over 0..MaxPart
MaxPart == 1
\* the day generateUpdate runs on (release timestamps are earlier days)
NowDay == 2
\* config.repositories has at most MaxRepos entries
MaxRepos == 2
\* a Maven property value has at most MaxValLen pieces
MaxValLen == 2
\* the passes of applyProps the model follows before it gives up on a run
MaxPasses == 4

----------------------------------------------------------------------------
(* JavaScript values *)

UNDEFINED == "<undefined>"
NULL == "<null>"
\* the outcome of a call that throws (or of a promise that rejects)
THROW == "<throw>"

\* if (v): undefined, null and the empty string are falsy
Truthy(v) == v \notin {UNDEFINED, NULL, ""}

\* an object with no field
EmptyObject == <<>>
Has(obj, f) == f \in DOMAIN obj
\* obj.f = v
Put(obj, f, v) == [k \in DOMAIN obj \cup {f} |-> IF k = f THEN v ELSE obj[k]]
\* !obj.f for a string-valued field
Unset(obj, f) == ~Has(obj, f) \/ ~Truthy(obj[f])
\* obj.f is undefined or null (the test of ??)
Nullish(obj, f) == ~Has(obj, f) \/ obj[f] \in {UNDEFINED, NULL}

----------------------------------------------------------------------------
(* Inputs *)

\* a version string, as the parts a decomposing scheme reads from it
Versions == {<<a, b, c>> : a \in 0..MaxPart, b \in 0..MaxPart, c \in 0..MaxPart}
\* currentVersion is absent (undefined or the empty string)
NoVersion == <<>>
CurrentVersions ==
  {NoVersion} \cup {v \in Versions : v[1] = v[2] /\ v[2] = v[3]}

CurrentValues == {UNDEFINED, "", "^1.0.0"}
\* what versioningApi.getNewValue may answer (string | null), or it throws
NewValueResponses == {NULL, "^1.0.0", "^2.0.0", THROW}
BoolResponses == {"true", "false", THROW}
RangeStrategies == {"replace", "bump", "update-lockfile"}
UpdateTypes ==
  {"major", "minor", "patch", "pin", "digest", "rollback", "replacement", "bump"}
\* what the merge-confidence lookup may resolve to, or it rejects
ConfidenceOutcomes == {UNDEFINED, "low", "high", THROW}

\* releases: the optional metadata a release may carry
ReleaseMetas ==
  { EmptyObject,
    [registryUrl |-> "https://r2", releaseTimestamp |-> NULL],
    [checksumUrl |-> "https://r1/sum", downloadUrl |-> "https://r1/dl",
     newDigest |-> "sha256:cd", releaseTimestamp |-> "day-1",
     registryUrl |-> "https://r1"] }
Releases == {Put(m, "version", v) : m \in ReleaseMetas, v \in Versions}

\* LookupUpdateConfig: datasource, packageName and optional packageRules
BaseConfig == [datasource |-> "npm", packageName |-> "pkg"]
RuleLists ==
  { <<>>,
    << [matchPackageNames |-> <<"pkg">>, matchConfidence |-> <<>>] >>,
    << [matchPackageNames |-> <<"pkg">>],
       [matchConfidence |-> <<"high">>] >> }
Configs == {BaseConfig} \cup {Put(BaseConfig, "packageRules", r) : r \in RuleLists}

\* the four optional fields generateUpdate passes through, each absent from
\* the release, present but undefined, the empty string, or a value
MetaFields == {"checksumUrl", "downloadUrl", "newDigest", "registryUrl"}
ABSENT == "<absent>"
MetaShapes == [MetaFields -> {ABSENT, UNDEFINED, "", "value"}]
MetaValue(field) ==
  CASE field = "checksumUrl" -> "https://r1/sum"
    [] field = "downloadUrl" -> "https://r1/dl"
    [] field = "newDigest" -> "sha256:cd"
    [] field = "registryUrl" -> "https://r1"
MetaRelease(m, version) ==
  [k \in {x \in MetaFields : m[x] # ABSENT} \cup {"version"} |->
     IF k = "version" THEN version
     ELSE IF m[k] = "value" THEN MetaValue(k) ELSE m[k]]
\* a config that also carries an update type of the caller's
ConfidenceConfig ==
  Put(BaseConfig, "packageRules", << [matchConfidence |-> <<"high">>] >>)
SuppliedConfigs ==
  {BaseConfig, ConfidenceConfig, Put(ConfidenceConfig, "updateType", "pin")}

\* the versioning scheme: whether it has the optional isBreaking, and what
\* its matches(newVersion, currentValue) is for this call's arguments
Apis == [hasIsBreaking : BOOLEAN, matches : BOOLEAN]

----------------------------------------------------------------------------
(* Collaborators *)

getMajor(v) == v[1]
getMinor(v) == v[2]
getPatch(v) == v[3]

DayOf(ts) == CASE ts = "day-0" -> 0 [] ts = "day-1" -> 1
getElapsedDays(ts) == NowDay - DayOf(ts)

\* update-type.ts: major, minor, patch by the first part that differs; the
\* result for two versions that differ in no part is left open (any).
getUpdateType(currentVersion, newVersion, any) ==
  IF getMajor(newVersion) # getMajor(currentVersion) THEN "major"
  ELSE IF getMinor(newVersion) # getMinor(currentVersion) THEN "minor"
  ELSE IF getPatch(newVersion) # getPatch(currentVersion) THEN "patch"
  ELSE any

\* RequestsConfidence testing only that matchConfidence is there
RequestsConfidence_AnyArray(config) ==
  /\ Has(config, "packageRules")
  /\ \E i \in 1..Len(config.packageRules) :
       Has(config.packageRules[i], "matchConfidence")

\* packageRules?.some((pr) => is.nonEmptyArray(pr.matchConfidence))
RequestsConfidence(config) ==
  /\ Has(config, "packageRules")
  /\ \E i \in 1..Len(config.packageRules) :
       /\ Has(config.packageRules[i], "matchConfidence")
       /\ Len(config.packageRules[i].matchConfidence) > 0

----------------------------------------------------------------------------
(* generateUpdate, statement by statement *)

IdleFrame ==
  [pc |-> "idle", config |-> EmptyObject, currentValue |-> UNDEFINED,
   api |-> [hasIsBreaking |-> FALSE, matches |-> FALSE], rangeStrategy |-> "replace",
   currentVersion |-> NoVersion, bucket |-> "", release |-> EmptyObject,
   update |-> EmptyObject, log |-> <<>>, ret |-> EmptyObject,
   lookup |-> <<>>, thrownBy |-> ""]

\* a call of a collaborator: logged, with what it answered
Log(f, name, answer) ==
  [f EXCEPT !.log = Append(@, name), !.ret = Put(@, name, answer)]
Throw(f, name) == [f EXCEPT !.pc = "threw", !.thrownBy = name]

\* lines 253-258
NewUpdate(bucket, release) ==
  [bucket |-> bucket, newVersion |-> release.version, newValue |-> NULL]

Enter(config, currentValue, api, rangeStrategy, currentVersion, bucket, release) ==
  [IdleFrame EXCEPT
     !.pc = "meta", !.config = config, !.currentValue = currentValue,
     !.api = api, !.rangeStrategy = rangeStrategy,
     !.currentVersion = currentVersion, !.bucket = bucket,
     !.release = release, !.update = NewUpdate(bucket, release)]

\* CopyIfDefined that defaults a field the release does not have to null
CopyIfDefined_Defaulting(u, release, field) ==
  IF Has(release, field) /\ release[field] # UNDEFINED
  THEN Put(u, field, release[field]) ELSE Put(u, field, NULL)

\* lines 260-285
CopyIfDefined(u, release, field) ==
  IF Has(release, field) /\ release[field] # UNDEFINED
  THEN Put(u, field, release[field]) ELSE u

CopyTimestamp(u, release) ==
  IF Has(release, "releaseTimestamp") /\ Truthy(release.releaseTimestamp)
  THEN Put(Put(u, "releaseTimestamp", release.releaseTimestamp),
           "newVersionAgeInDays", getElapsedDays(release.releaseTimestamp))
  ELSE u

CopyMeta(f) ==
  LET u1 == CopyIfDefined(f.update, f.release, "checksumUrl")
      u2 == CopyIfDefined(u1, f.release, "downloadUrl")
      u3 == CopyIfDefined(u2, f.release, "newDigest")
      u4 == CopyTimestamp(u3, f.release)
      u5 == CopyIfDefined(u4, f.release, "registryUrl")
  IN  [f EXCEPT !.update = u5, !.pc = "rewrite"]

\* RewriteValue without its catch block: the failure of getNewValue escapes
RewriteValue_NoCatch(f, answer) ==
  IF Truthy(f.currentValue)
  THEN LET g == Log(f, "getNewValue", answer)
       IN  IF answer = THROW
           THEN Throw(g, "getNewValue")
           ELSE [g EXCEPT !.update = Put(@, "newValue", answer),
                          !.pc = "parts"]
  ELSE [f EXCEPT !.update = Put(@, "newValue", f.currentValue), !.pc = "parts"]

\* RewriteValue testing currentValue !== undefined instead of its truthiness
RewriteValue_DefinedTest(f, answer) ==
  IF f.currentValue # UNDEFINED
  THEN LET g == Log(f, "getNewValue", answer)
       IN  IF answer = THROW
           THEN [g EXCEPT !.update = Put(@, "newValue", f.currentValue),
                          !.pc = "parts"]
           ELSE [g EXCEPT !.update = Put(@, "newValue", answer),
                          !.pc = "parts"]
  ELSE [f EXCEPT !.update = Put(@, "newValue", f.currentValue), !.pc = "parts"]

\* lines 287-304; answer is what getNewValue does when it is called
RewriteValue(f, answer) ==
  IF Truthy(f.currentValue)
  THEN LET g == Log(f, "getNewValue", answer)
       IN  IF answer = THROW
           THEN [g EXCEPT !.update = Put(@, "newValue", f.currentValue),
                          !.pc = "parts"]
           ELSE [g EXCEPT !.update = Put(@, "newValue", answer),
                          !.pc = "parts"]
  ELSE [f EXCEPT !.update = Put(@, "newValue", f.currentValue), !.pc = "parts"]

\* lines 305-307; thrower is the accessor that throws, if any
VersionParts(f, thrower) ==
  LET nv == f.update.newVersion
      g1 == Log(f, "getMajor", IF thrower = "getMajor" THEN THROW ELSE "ok")
      h1 == [g1 EXCEPT !.update = Put(@, "newMajor", getMajor(nv))]
      g2 == Log(h1, "getMinor", IF thrower = "getMinor" THEN THROW ELSE "ok")
      h2 == [g2 EXCEPT !.update = Put(@, "newMinor", getMinor(nv))]
      g3 == Log(h2, "getPatch", IF thrower = "getPatch" THEN THROW ELSE "ok")
      h3 == [g3 EXCEPT !.update = Put(@, "newPatch", getPatch(nv))]
  IN  CASE thrower = "getMajor" -> Throw(g1, "getMajor")
        [] thrower = "getMinor" -> Throw(g2, "getMinor")
        [] thrower = "getPatch" -> Throw(g3, "getPatch")
        [] OTHER -> [h3 EXCEPT !.pc = "guard"]

\* line 309
NoCurrentVersion(f) ==
  Unset(f.update, "updateType") /\ f.currentVersion = NoVersion

\* EarlyExit that returns without resetting newValue
EarlyExit_NoOverride(f) ==
  IF NoCurrentVersion(f)
  THEN [f EXCEPT !.pc = "returned"]
  ELSE [f EXCEPT !.pc = "classify"]

\* lines 309-313
EarlyExit(f) ==
  IF NoCurrentVersion(f)
  THEN [f EXCEPT !.update = Put(@, "newValue", f.currentValue),
                 !.pc = "returned"]
  ELSE [f EXCEPT !.pc = "classify"]

\* lines 314-316; the classifier's result is logged as its answer
Classify(f, any) ==
  IF Nullish(f.update, "updateType")
  THEN LET t == getUpdateType(f.currentVersion, f.update.newVersion, any)
           g == Log(f, "getUpdateType", t)
       IN  [g EXCEPT !.update = Put(@, "updateType", t), !.pc = "breaking"]
  ELSE [f EXCEPT !.pc = "breaking"]

\* Breaking with the fallback comparison negated (updateType !== 'major')
Breaking_NegatedFallback(f, answer) ==
  IF f.api.hasIsBreaking
  THEN LET g == Log(f, "isBreaking", answer)
       IN  IF answer = THROW THEN Throw(g, "isBreaking")
           ELSE [g EXCEPT !.update = Put(@, "isBreaking", answer = "true"),
                          !.pc = "confidence"]
  ELSE [f EXCEPT !.update = Put(@, "isBreaking", f.update.updateType # "major"),
                 !.pc = "confidence"]

\* Breaking that never consults the scheme's isBreaking
Breaking_IgnoreCapability(f, answer) ==
  [f EXCEPT !.update = Put(@, "isBreaking", f.update.updateType = "major"),
            !.pc = "confidence"]

\* Breaking without the else branch: no isBreaking for a scheme without it
Breaking_NoFallback(f, answer) ==
  IF f.api.hasIsBreaking
  THEN LET g == Log(f, "isBreaking", answer)
       IN  IF answer = THROW THEN Throw(g, "isBreaking")
           ELSE [g EXCEPT !.update = Put(@, "isBreaking", answer = "true"),
                          !.pc = "confidence"]
  ELSE [f EXCEPT !.pc = "confidence"]

\* lines 317-325; answer is what versioningApi.isBreaking does when it exists
Breaking(f, answer) ==
  IF f.api.hasIsBreaking
  THEN LET g == Log(f, "isBreaking", answer)
       IN  IF answer = THROW THEN Throw(g, "isBreaking")
           ELSE [g EXCEPT !.update = Put(@, "isBreaking", answer = "true"),
                          !.pc = "confidence"]
  ELSE [f EXCEPT !.update = Put(@, "isBreaking", f.update.updateType = "major"),
                 !.pc = "confidence"]

\* lines 326-334, up to the await
Confidence(f) ==
  IF RequestsConfidence(f.config)
  THEN LET g == Log(f, "getMergeConfidenceLevel", "pending")
       IN  [g EXCEPT !.lookup = <<f.config.datasource, f.config.packageName,
                                  f.currentVersion, f.update.newVersion,
                                  f.update.updateType>>,
                     !.pc = "await"]
  ELSE [f EXCEPT !.pc = "flags"]

\* lines 328-335, from the await on; outcome is how the promise settles
Settle(f, outcome) ==
  LET g == [f EXCEPT !.ret = Put(@, "getMergeConfidenceLevel", outcome)]
  IN  IF outcome = THROW THEN Throw(g, "getMergeConfidenceLevel")
      ELSE [g EXCEPT !.update = Put(@, "mergeConfidenceLevel", outcome),
                     !.pc = "flags"]

\* RangeFlag that asks isVersion only about a truthy newValue
RangeFlag_TruthyOnly(f, isVersion) ==
  IF Truthy(f.update.newValue)
  THEN LET g == [Log(f, "isVersion", isVersion) EXCEPT
                   !.ret = Put(@, "isVersion.arg", f.update.newValue)]
       IN  IF isVersion = THROW THEN Throw(g, "isVersion")
           ELSE IF isVersion = "false"
                THEN [g EXCEPT !.update = Put(@, "isRange", TRUE)]
                ELSE g
  ELSE f

\* lines 336-338; the argument isVersion is called with is logged too
RangeFlag(f, isVersion) ==
  LET g == [Log(f, "isVersion", isVersion) EXCEPT
              !.ret = Put(@, "isVersion.arg", f.update.newValue)]
  IN  IF isVersion = THROW THEN Throw(g, "isVersion")
      ELSE IF isVersion = "false"
           THEN [g EXCEPT !.update = Put(@, "isRange", TRUE)]
           ELSE g

\* LockfileFlag with the comparison negated (currentValue !== newValue)
LockfileFlag_Negated(f) ==
  IF f.rangeStrategy = "update-lockfile" /\ f.currentValue # f.update.newValue
  THEN [f EXCEPT !.update = Put(@, "isLockfileUpdate", TRUE)]
  ELSE f

\* LockfileFlag that does not compare the values
LockfileFlag_NoValueTest(f) ==
  IF f.rangeStrategy = "update-lockfile"
  THEN [f EXCEPT !.update = Put(@, "isLockfileUpdate", TRUE)]
  ELSE f

\* lines 339-341
LockfileFlag(f) ==
  IF f.rangeStrategy = "update-lockfile" /\ f.currentValue = f.update.newValue
  THEN [f EXCEPT !.update = Put(@, "isLockfileUpdate", TRUE)]
  ELSE f

\* BumpFlag with the result of matches negated
BumpFlag_NegatedMatch(f, throws) ==
  IF f.rangeStrategy = "bump"
  THEN IF throws THEN Throw(Log(f, "matches", THROW), "matches")
       ELSE IF ~f.api.matches
            THEN [Log(f, "matches", "false") EXCEPT
                    !.update = Put(@, "isBump", TRUE)]
            ELSE Log(f, "matches", "true")
  ELSE f

\* BumpFlag that does not test rangeStrategy
BumpFlag_NoStrategyTest(f, throws) ==
  IF throws THEN Throw(Log(f, "matches", THROW), "matches")
  ELSE IF f.api.matches
       THEN [Log(f, "matches", "true") EXCEPT
               !.update = Put(@, "isBump", TRUE)]
       ELSE Log(f, "matches", "false")

\* lines 342-348; matches is called only when rangeStrategy is bump, and
\* then it answers f.api.matches unless it throws
BumpFlag(f, throws) ==
  IF f.rangeStrategy = "bump"
  THEN IF throws THEN Throw(Log(f, "matches", THROW), "matches")
       ELSE IF f.api.matches
            THEN [Log(f, "matches", "true") EXCEPT
                    !.update = Put(@, "isBump", TRUE)]
            ELSE Log(f, "matches", "false")
  ELSE f

\* lines 336-349
Flags(f, isVersion, matchesThrows) ==
  LET g == RangeFlag(f, isVersion)
  IN  IF g.pc = "threw" THEN g
      ELSE LET h == BumpFlag(LockfileFlag(g), matchesThrows)
           IN  IF h.pc = "threw" THEN h ELSE [h EXCEPT !.pc = "returned"]

----------------------------------------------------------------------------
(* The global worker's start() *)

\* One run of start(): the config variable (an object, or the empty object
\* while it is unassigned), the position of the repository loop, the calls
\* made so far with what they answered, the return statement the finally
\* block holds back (returning, -1 if none) and the exit code (result).
\* hostRules, queue and throttle are the module-level state of the HTTP
\* layer: the host rules in force and the index of the repository whose
\* config put them there (0: none did), and the repository whose requests
\* the queues and throttles were made for, if any.
RepoNames == {"org/a", "org/b"}
RepoLists == UNION {[1..n -> RepoNames] : n \in 0..MaxRepos}
GlobalConfigs ==
  [repositories : RepoLists, writeDiscoveredRepos : {"", "repos.json"}]

\* the host rules a repository config may carry
HostRuleLists == {<<>>, <<"h1">>, <<"h2">>, <<"h1", "h2">>}

IdleWorker ==
  [pc |-> "idle", config |-> EmptyObject, index |-> 0, log |-> <<>>,
   returning |-> -1, result |-> -1, repoConfig |-> EmptyObject,
   hostRules |-> [rules |-> <<>>, from |-> 0], queue |-> "", throttle |-> ""]

\* a call of a collaborator, what it was about and what it answered
WLog(w, call, about, answer) ==
  [w EXCEPT !.log = Append(@, [call |-> call, about |-> about,
                               answer |-> answer])]
Outcome(throws) == IF throws THEN THROW ELSE "ok"
\* !config
Missing(config) == DOMAIN config = {}

\* lines 97-119: logging and the read of the environment, before the try
Start(w) == [WLog(w, "getEnv", "", "ok") EXCEPT !.pc = "config"]

\* lines 121-123: config = await getGlobalConfig()
ParseConfig(w, throws, config) ==
  LET g == WLog(w, "getGlobalConfig", "", Outcome(throws))
  IN  IF throws THEN [g EXCEPT !.pc = "catch"]
      ELSE [g EXCEPT !.config = config, !.pc = "init"]

\* lines 125-148; thrower is the step that throws, if any
Initialize(w, thrower) ==
  LET g1 == WLog(w, "globalInitialize", "", Outcome(thrower = "globalInitialize"))
      g2 == WLog(g1, "validatePresets", "", Outcome(thrower = "validatePresets"))
      g3 == WLog(g2, "validateConfigSecretsAndVariables", "",
                 Outcome(thrower = "validateConfigSecretsAndVariables"))
  IN  CASE thrower = "globalInitialize" -> [g1 EXCEPT !.pc = "catch"]
        [] thrower = "validatePresets" -> [g2 EXCEPT !.pc = "catch"]
        [] thrower = "validateConfigSecretsAndVariables" -> [g3 EXCEPT !.pc = "catch"]
        [] OTHER -> [g3 EXCEPT !.pc = "discover"]

\* lines 150-153; repositories is the list the returned config carries
Discover(w, throws, repositories) ==
  LET g == WLog(w, "autodiscoverRepositories", "", Outcome(throws))
  IN  IF throws THEN [g EXCEPT !.pc = "catch"]
      ELSE [g EXCEPT !.config = [@ EXCEPT !.repositories = repositories],
                     !.pc = "write"]

\* WriteDiscovered without its return: the loop follows the write
WriteDiscovered_NoReturn(w, throws) ==
  IF w.config.writeDiscoveredRepos # ""
  THEN LET g == WLog(w, "writeFile", w.config.writeDiscoveredRepos, Outcome(throws))
       IN  IF throws THEN [g EXCEPT !.pc = "catch"]
           ELSE [g EXCEPT !.index = 1, !.pc = "loop"]
  ELSE [w EXCEPT !.index = 1, !.pc = "loop"]

\* lines 155-162: the list is written and start() returns 0, which the
\* finally block holds back
WriteDiscovered(w, throws) ==
  IF w.config.writeDiscoveredRepos # ""
  THEN LET g == WLog(w, "writeFile", w.config.writeDiscoveredRepos, Outcome(throws))
       IN  IF throws THEN [g EXCEPT !.pc = "catch"]
           ELSE [g EXCEPT !.returning = 0, !.pc = "finally"]
  ELSE [w EXCEPT !.index = 1, !.pc = "loop"]

\* LimitCheck that skips the repository but goes on with the next one
LimitCheck_Continue(w, reached) ==
  IF w.index > Len(w.config.repositories)
  THEN [w EXCEPT !.pc = "report"]
  ELSE LET g == WLog(w, "isLimitReached", "Commits",
                     IF reached THEN "true" ELSE "false")
       IN  IF reached THEN [g EXCEPT !.index = @ + 1]
           ELSE [g EXCEPT !.pc = "repo"]

\* lines 63-69 and 165-168: the head of the loop; reached is what
\* isLimitReached('Commits') answers
LimitCheck(w, reached) ==
  IF w.index > Len(w.config.repositories)
  THEN [w EXCEPT !.pc = "report"]
  ELSE LET g == WLog(w, "isLimitReached", "Commits",
                     IF reached THEN "true" ELSE "false")
       IN  IF reached THEN [g EXCEPT !.pc = "report"]
           ELSE [g EXCEPT !.pc = "repo"]

\* hostRules.add(rule) for every rule of the list, in its order
RECURSIVE AddRules(_, _, _)
AddRules(w, rules, repository) ==
  IF rules = <<>> THEN w
  ELSE AddRules([WLog(w, "hostRules.add", Head(rules), "ok") EXCEPT
                   !.hostRules.rules = Append(@, Head(rules))],
                Tail(rules), repository)

\* ReplaceHostRules without hostRules.clear()
ReplaceHostRules_NoClear(w, rules, repository) ==
  [AddRules([w EXCEPT !.hostRules.from = w.index], rules, repository) EXCEPT
     !.repoConfig = Put(@, "hostRules", <<>>)]

\* lines 174-178: hostRules.clear(), every rule added, repoConfig.hostRules
\* emptied
ReplaceHostRules(w, rules, repository) ==
  LET g == [WLog(w, "hostRules.clear", repository, "ok") EXCEPT
              !.hostRules = [rules |-> <<>>, from |-> w.index]]
  IN  [AddRules(g, rules, repository) EXCEPT
         !.repoConfig = Put(@, "hostRules", <<>>)]

\* lines 172-182: the repository's config, its host rules (if it carries
\* any), the cleared queue and throttle
RepoConfig(w, throws, hasHostRules, rules) ==
  LET repository == w.config.repositories[w.index]
      g == [WLog(w, "getRepositoryConfig", repository, Outcome(throws)) EXCEPT
              !.repoConfig = IF hasHostRules
                             THEN [repository |-> repository, hostRules |-> rules]
                             ELSE [repository |-> repository]]
      h == IF hasHostRules THEN ReplaceHostRules(g, rules, repository) ELSE g
      k == [WLog([WLog(h, "queue.clear", repository, "ok") EXCEPT !.queue = ""],
                 "throttle.clear", repository, "ok") EXCEPT !.throttle = ""]
  IN  IF throws THEN [WLog(w, "getRepositoryConfig", repository, THROW) EXCEPT
                        !.pc = "catch"]
      ELSE [k EXCEPT !.pc = "renovate"]

\* lines 184-185 and the step of the loop; the repository's requests leave
\* queues and throttles behind
Renovate(w, throws) ==
  LET repository == w.config.repositories[w.index]
      g == [WLog(w, "renovateRepository", repository, Outcome(throws)) EXCEPT
              !.queue = repository, !.throttle = repository]
  IN  IF throws THEN [g EXCEPT !.pc = "catch"]
      ELSE [WLog(g, "setMeta", repository, "ok") EXCEPT
              !.index = @ + 1, !.pc = "loop"]

\* lines 198-199
Report(w, thrower) ==
  LET g1 == WLog(w, "finalizeReport", "", Outcome(thrower = "finalizeReport"))
      g2 == WLog(g1, "exportStats", "", Outcome(thrower = "exportStats"))
  IN  CASE thrower = "finalizeReport" -> [g1 EXCEPT !.pc = "catch"]
        [] thrower = "exportStats" -> [g2 EXCEPT !.pc = "catch"]
        [] OTHER -> [g2 EXCEPT !.pc = "finally"]

\* Catch whose return 2 leaves start() without the finally block
Catch_ReturnsAtOnce(w) ==
  IF Missing(w.config)
  THEN [w EXCEPT !.result = 2, !.pc = "returned"]
  ELSE [w EXCEPT !.pc = "finally"]

\* lines 200-213: return 2 without a config; the finally block holds the
\* return back
Catch(w) ==
  IF Missing(w.config)
  THEN [w EXCEPT !.returning = 2, !.pc = "finally"]
  ELSE [w EXCEPT !.pc = "finally"]

\* lines 214-221: globalFinalize(config), then the held return, if any
Finalize(w, throws) ==
  LET g == WLog(w, "globalFinalize",
                IF Missing(w.config) THEN UNDEFINED ELSE "config",
                Outcome(throws))
  IN  IF throws THEN [g EXCEPT !.pc = "threw"]
      ELSE IF g.returning # -1
           THEN [g EXCEPT !.result = g.returning, !.pc = "returned"]
           ELSE [g EXCEPT !.pc = "problems"]

\* lines 222-230
Problems(w, hasErrors) ==
  [WLog(w, "getProblems", "", IF hasErrors THEN "errors" ELSE "none") EXCEPT
     !.result = IF hasErrors THEN 1 ELSE 0, !.pc = "returned"]

----------------------------------------------------------------------------
(* The Maven manager: applyProps and resolveParents (extract.ts) *)

\* A string of a pom is the sequence of its pieces: plain text ("x") and
\* placeholders, the matches of /\${[^}]*?}/.
PropKeys == {"a", "b"}
Placeholders == {"${a}", "${b}"}
Pieces == {"x"} \cup Placeholders
\* substr.slice(2, -1).trim()
KeyOf(piece) == CASE piece = "${a}" -> "a" [] piece = "${b}" -> "b"
PropValues == UNION {[1..n -> Pieces] : n \in 0..MaxValLen}
\* MavenProp: the value, and the package file that defines the property
PropSourceOf(key) == CASE key = "a" -> "pom.xml" [] key = "b" -> "parent/pom.xml"
PropMaps ==
  UNION {[K -> PropValues] : K \in SUBSET PropKeys}
MavenProps(m) ==
  [k \in DOMAIN m |-> [val |-> m[k], packageFile |-> PropSourceOf(k)]]
\* the dependencies applyProps is given; "" (no pieces) is a falsy string
Deps ==
  [depName : {<<"x">>, <<"${a}">>},
   currentValue : {<<>>, <<"${a}">>, <<"${b}">>, <<"x", "${a}">>},
   registryUrls : {<<>>, << <<"${b}">> >>}]

\* props[propKey] is truthy
Defined(props, piece) == piece \in Placeholders /\ KeyOf(piece) \in DOMAIN props

\* lines 285-299: str.replace(regEx(/\${[^}]*?}/g), ...); the replaced text
\* is not searched again
RECURSIVE replaceAll(_, _)
replaceAll(str, props) ==
  IF str = <<>> THEN <<>>
  ELSE (IF Defined(props, Head(str)) THEN props[KeyOf(Head(str))].val
        ELSE <<Head(str)>>) \o replaceAll(Tail(str), props)
\* the keys replaceAll looks up with success
KeysIn(str, props) ==
  {KeyOf(str[i]) : i \in {j \in 1..Len(str) : Defined(props, str[j])}}
\* lines 313: /^\${[^}]*?}$/ matches a string that is one placeholder
IsOnePlaceholder(str) == Len(str) = 1 /\ str[1] \in Placeholders

\* line 84
containsPlaceholder(str) == \E i \in 1..Len(str) : str[i] \in Placeholders

\* applyPropsInternal that never reports a property seen before
applyPropsInternal_NeverFatal(dep, depPackageFile, props, previouslySeenProps) ==
  LET shared == dep.currentValue # <<>> /\ IsOnePlaceholder(dep.currentValue)
                  /\ Defined(props, dep.currentValue[1])
      used == (IF dep.depName # <<>> THEN KeysIn(dep.depName, props) ELSE {})
              \cup UNION {KeysIn(dep.registryUrls[i], props) :
                            i \in 1..Len(dep.registryUrls)}
              \cup (IF shared THEN {KeyOf(dep.currentValue[1])} ELSE {})
      propSource == IF shared THEN props[KeyOf(dep.currentValue[1])].packageFile
                    ELSE IF Has(dep, "propSource") THEN dep.propSource
                    ELSE UNDEFINED
      r1 == [dep EXCEPT
               !.depName = IF @ # <<>> THEN replaceAll(@, props) ELSE @,
               !.registryUrls = [i \in 1..Len(@) |-> replaceAll(@[i], props)],
               !.currentValue = IF shared THEN props[KeyOf(@[1])].val ELSE @]
      r2 == Put(r1, "propSource", propSource)
      r3 == IF shared THEN Put(r2, "sharedVariableName", KeyOf(dep.currentValue[1]))
            ELSE r2
      r4 == IF propSource # UNDEFINED /\ depPackageFile # propSource
            THEN Put(r3, "editFile", propSource) ELSE r3
  IN  [result |-> r4, anyChange |-> used # {}, fatal |-> FALSE,
       seen |-> previouslySeenProps \cup used]

\* lines 276-361: one pass; seen is previouslySeenProps as the pass leaves it
applyPropsInternal(dep, depPackageFile, props, previouslySeenProps) ==
  LET shared == dep.currentValue # <<>> /\ IsOnePlaceholder(dep.currentValue)
                  /\ Defined(props, dep.currentValue[1])
      used == (IF dep.depName # <<>> THEN KeysIn(dep.depName, props) ELSE {})
              \cup UNION {KeysIn(dep.registryUrls[i], props) :
                            i \in 1..Len(dep.registryUrls)}
              \cup (IF shared THEN {KeyOf(dep.currentValue[1])} ELSE {})
      propSource == IF shared THEN props[KeyOf(dep.currentValue[1])].packageFile
                    ELSE IF Has(dep, "propSource") THEN dep.propSource
                    ELSE UNDEFINED
      r1 == [dep EXCEPT
               !.depName = IF @ # <<>> THEN replaceAll(@, props) ELSE @,
               !.registryUrls = [i \in 1..Len(@) |-> replaceAll(@[i], props)],
               !.currentValue = IF shared THEN props[KeyOf(@[1])].val ELSE @]
      r2 == Put(r1, "propSource", propSource)
      r3 == IF shared THEN Put(r2, "sharedVariableName", KeyOf(dep.currentValue[1]))
            ELSE r2
      r4 == IF propSource # UNDEFINED /\ depPackageFile # propSource
            THEN Put(r3, "editFile", propSource) ELSE r3
  IN  [result |-> r4, anyChange |-> used # {},
       fatal |-> used \cap previouslySeenProps # {},
       seen |-> previouslySeenProps \cup used]

\* One run of applyProps: its arguments, result and alreadySeenProps as the
\* loop has them, the set alreadySeenProps was after each pass (seenAfter),
\* and what it returned (out).
IdleApplying ==
  [pc |-> "idle", dep |-> EmptyObject, props |-> EmptyObject,
   result |-> EmptyObject, alreadySeenProps |-> {}, seenAfter |-> <<>>,
   anyChange |-> FALSE, fatal |-> FALSE, out |-> EmptyObject]

\* lines 243-250
EnterApplyProps(dep, props) ==
  [IdleApplying EXCEPT !.pc = "pass", !.dep = dep, !.props = props,
                       !.result = dep]

\* lines 252-265: one turn of the do..while loop
Pass(a) ==
  LET r == applyPropsInternal(a.result, "pom.xml", a.props, a.alreadySeenProps)
      b == [a EXCEPT !.alreadySeenProps = r.seen,
                     !.seenAfter = Append(@, r.seen),
                     !.anyChange = r.anyChange, !.fatal = r.fatal]
  IN  IF r.fatal
      THEN [b EXCEPT !.out = Put(a.dep, "skipReason", "recursive-placeholder"),
                     !.pc = "done"]
      ELSE [b EXCEPT !.result = r.result,
                     !.pc = IF r.anyChange THEN "pass" ELSE "finish"]

\* lines 267-273
Finish(a) ==
  [a EXCEPT !.pc = "done",
            !.out = IF containsPlaceholder(a.result.depName)
                    THEN Put(a.result, "skipReason", "name-placeholder")
                    ELSE IF containsPlaceholder(a.result.currentValue)
                         THEN Put(a.result, "skipReason", "version-placeholder")
                         ELSE a.result]
\* resolveParents, lines 505-548: the package files it is given, in their
\* order, and the parents they may name (one of them, or a file that is
\* not among them)
PackageFileNames == <<"pom.xml", "child/pom.xml", "lib/pom.xml">>
PackageFileSet == {PackageFileNames[i] : i \in 1..Len(PackageFileNames)}
ParentNames == PackageFileSet \cup {"../external/pom.xml"}
\* mavenProps of a file: none, or the property v defined in that file
PropsOf(name, defines) ==
  IF defines THEN [v |-> [val |-> "1.0", packageFile |-> name]] ELSE EmptyObject
PackageOf(name, parent, defines) ==
  IF parent = ABSENT
  THEN [packageFile |-> name, mavenProps |-> PropsOf(name, defines)]
  ELSE [packageFile |-> name, mavenProps |-> PropsOf(name, defines),
        parent |-> parent]
PackageSets ==
  {[name \in PackageFileSet |-> PackageOf(name, parents[name], defining[name])] :
     parents \in [PackageFileSet -> ParentNames \cup {ABSENT}],
     defining \in [PackageFileSet -> BOOLEAN]}

\* Object.assign(target, source)
Assign(target, source) ==
  [k \in DOMAIN target \cup DOMAIN source |->
     IF k \in DOMAIN source THEN source[k] ELSE target[k]]
\* Object.assign.apply(null, propsHierarchy): later sources override
RECURSIVE AssignAll(_, _)
AssignAll(target, sources) ==
  IF sources = <<>> THEN target
  ELSE AssignAll(Assign(target, Head(sources)), Tail(sources))

\* One run of resolveParents up to line 548: the extracted packages, the
\* index of the name whose scope is being built, the package the walk is
\* at (pkg, "" when it is null or undefined), visitedPackages,
\* propsHierarchy, the files the walk has passed (walked; walks keeps them
\* per name) and the scopes built so far (extractedProps).
IdleResolving ==
  [pc |-> "idle", extractedPackages |-> EmptyObject, index |-> 0, pkg |-> "",
   visitedPackages |-> {}, propsHierarchy |-> <<>>, walked |-> <<>>,
   walks |-> EmptyObject, registryUrls |-> EmptyObject,
   extractedProps |-> EmptyObject]

\* lines 505-525: the first name's walk is about to start
EnterResolveParents(packages) ==
  [IdleResolving EXCEPT
     !.pc = "walk", !.extractedPackages = packages, !.index = 1,
     !.pkg = PackageFileNames[1],
     !.registryUrls = Put(EmptyObject, PackageFileNames[1], {})]

\* WalkStep that appends the props of the package instead of prepending them
WalkStep_Push(r) ==
  LET name == PackageFileNames[r.index]
      pkg == r.extractedPackages[r.pkg]
      g == [r EXCEPT !.propsHierarchy = Append(@, pkg.mavenProps),
                     !.walked = Append(@, r.pkg),
                     !.registryUrls[name] = @ \cup {r.pkg}]
  IN  IF Has(pkg, "parent") /\ pkg.parent \notin r.visitedPackages
      THEN [g EXCEPT !.visitedPackages = @ \cup {pkg.parent},
                     !.pkg = IF pkg.parent \in DOMAIN r.extractedPackages
                             THEN pkg.parent ELSE ""]
      ELSE [g EXCEPT !.pkg = ""]

\* lines 526-545: one turn of while (pkg); the registry URLs of a file's
\* deps are stood for by the file
WalkStep(r) ==
  LET name == PackageFileNames[r.index]
      pkg == r.extractedPackages[r.pkg]
      g == [r EXCEPT !.propsHierarchy = <<pkg.mavenProps>> \o @,
                     !.walked = Append(@, r.pkg),
                     !.registryUrls[name] = @ \cup {r.pkg}]
  IN  IF Has(pkg, "parent") /\ pkg.parent \notin r.visitedPackages
      THEN [g EXCEPT !.visitedPackages = @ \cup {pkg.parent},
                     !.pkg = IF pkg.parent \in DOMAIN r.extractedPackages
                             THEN pkg.parent ELSE ""]
      ELSE [g EXCEPT !.pkg = ""]


\* lines 546-548 and the next turn of forEach (lines 521-525)
MergeScope(r) ==
  LET name == PackageFileNames[r.index]
      hierarchy == <<EmptyObject>> \o r.propsHierarchy
      g == [r EXCEPT
              !.extractedProps = Put(@, name, AssignAll(Head(hierarchy),
                                                        Tail(hierarchy))),
              !.walks = Put(@, name, r.walked)]
  IN  IF r.index = Len(PackageFileNames)
      THEN [g EXCEPT !.pc = "done"]
      ELSE [g EXCEPT !.index = @ + 1, !.pkg = PackageFileNames[r.index + 1],
                     !.visitedPackages = {}, !.propsHierarchy = <<>>,
                     !.walked = <<>>,
                     !.registryUrls = Put(@, PackageFileNames[r.index + 1], {})]

----------------------------------------------------------------------------
(* The state machine *)

\* JavaScript runs an invocation without interruption up to its await
Synchronous(pc) == pc \notin {"idle", "await", "returned", "threw"}
MayRun(p) == \A q \in DOMAIN frames \ {p} : ~Synchronous(frames[q].pc)

Init ==
  /\ frames = [p \in {1} |-> IdleFrame]
  /\ worker = IdleWorker
  /\ applying = IdleApplying
  /\ resolving = IdleResolving

\* the invocation p is at pc and holds the thread
At(p, pc) == p \in DOMAIN frames /\ frames[p].pc = pc /\ MayRun(p)
\* an invocation's step that writes what another invocation is building
Becomes_SharedUpdate(p, g) ==
  /\ frames' = [q \in DOMAIN frames |->
                  IF q = p THEN g
                  ELSE IF frames[q].pc = "await"
                       THEN [frames[q] EXCEPT !.update = g.update]
                       ELSE frames[q]]
  /\ UNCHANGED <<worker, applying, resolving>>

\* every step of an invocation writes its own frame and nothing else
Becomes(p, g) ==
  /\ frames' = [frames EXCEPT ![p] = g]
  /\ UNCHANGED <<worker, applying, resolving>>

Call(p) ==
  /\ At(p, "idle")
  /\ \E config \in Configs, currentValue \in CurrentValues, api \in Apis,
        rangeStrategy \in RangeStrategies, currentVersion \in CurrentVersions,
        release \in Releases :
       Becomes(p, Enter(config, currentValue, api, rangeStrategy,
                        currentVersion, "b", release))

DoCopyMeta(p) ==
  /\ At(p, "meta")
  /\ Becomes(p, CopyMeta(frames[p]))

DoRewriteValue(p) ==
  /\ At(p, "rewrite")
  /\ \E answer \in NewValueResponses :
       /\ Truthy(frames[p].currentValue) \/ answer = NULL
       /\ Becomes(p, RewriteValue(frames[p], answer))

DoVersionParts(p) ==
  /\ At(p, "parts")
  /\ \E thrower \in {"none", "getMajor", "getMinor", "getPatch"} :
       Becomes(p, VersionParts(frames[p], thrower))

DoEarlyExit(p) ==
  /\ At(p, "guard")
  /\ Becomes(p, EarlyExit(frames[p]))

DoClassify(p) ==
  /\ At(p, "classify")
  /\ \E any \in UpdateTypes :
       Becomes(p, Classify(frames[p], any))

DoBreaking(p) ==
  /\ At(p, "breaking")
  /\ \E answer \in BoolResponses :
       /\ frames[p].api.hasIsBreaking \/ answer = "true"
       /\ Becomes(p, Breaking(frames[p], answer))

DoConfidence(p) ==
  /\ At(p, "confidence")
  /\ Becomes(p, Confidence(frames[p]))

DoSettle(p) ==
  /\ At(p, "await")
  /\ \E outcome \in ConfidenceOutcomes :
       Becomes(p, Settle(frames[p], outcome))

DoFlags(p) ==
  /\ At(p, "flags")
  /\ \E isVersion \in BoolResponses, matchesThrows \in BOOLEAN :
       /\ frames[p].rangeStrategy = "bump" \/ ~matchesThrows
       /\ Becomes(p, Flags(frames[p], isVersion, matchesThrows))

\* the invocations a caller may have in flight
Invocations == {1, 2}

Next ==
  \E p \in Invocations :
    \/ Call(p)
    \/ DoCopyMeta(p)
    \/ DoRewriteValue(p)
    \/ DoVersionParts(p)
    \/ DoEarlyExit(p)
    \/ DoClassify(p)
    \/ DoBreaking(p)
    \/ DoConfidence(p)
    \/ DoSettle(p)
    \/ DoFlags(p)

Spec == Init /\ [][Next]_vars

\* generateUpdate called with every shape of release metadata and with a
\* config that carries an update type
CallSupplied(p) ==
  /\ At(p, "idle")
  /\ \E config \in SuppliedConfigs, currentVersion \in {NoVersion, <<0, 0, 0>>},
        m \in MetaShapes :
       Becomes(p, Enter(config, "^1.0.0", [hasIsBreaking |-> FALSE, matches |-> TRUE],
                        "bump", currentVersion, "b",
                        MetaRelease(m, <<MaxPart, 0, 0>>)))

NextSupplied ==
  \E p \in Invocations :
    \/ CallSupplied(p)
    \/ DoCopyMeta(p)
    \/ DoRewriteValue(p)
    \/ DoVersionParts(p)
    \/ DoEarlyExit(p)
    \/ DoClassify(p)
    \/ DoBreaking(p)
    \/ DoConfidence(p)
    \/ DoSettle(p)
    \/ DoFlags(p)

SpecSupplied == Init /\ [][NextSupplied]_vars

\* start(), one statement group at a time
WorkerAt(pc) == worker.pc = pc
WorkerBecomes(w) == worker' = w /\ UNCHANGED <<frames, applying, resolving>>

DoStart ==
  /\ WorkerAt("idle")
  /\ WorkerBecomes(Start(worker))

DoParseConfig ==
  /\ WorkerAt("config")
  /\ \E throws \in BOOLEAN, config \in GlobalConfigs :
       /\ throws => config = [repositories |-> <<>>, writeDiscoveredRepos |-> ""]
       /\ WorkerBecomes(ParseConfig(worker, throws, config))

DoInitialize ==
  /\ WorkerAt("init")
  /\ \E thrower \in {"none", "globalInitialize", "validatePresets",
                      "validateConfigSecretsAndVariables"} :
       WorkerBecomes(Initialize(worker, thrower))

DoDiscover ==
  /\ WorkerAt("discover")
  /\ \E throws \in BOOLEAN, repositories \in RepoLists :
       /\ throws => repositories = <<>>
       /\ WorkerBecomes(Discover(worker, throws, repositories))

DoWriteDiscovered ==
  /\ WorkerAt("write")
  /\ \E throws \in BOOLEAN :
       /\ worker.config.writeDiscoveredRepos # "" \/ ~throws
       /\ WorkerBecomes(WriteDiscovered(worker, throws))

DoLimitCheck ==
  /\ WorkerAt("loop")
  /\ \E reached \in BOOLEAN :
       /\ worker.index <= Len(worker.config.repositories) \/ ~reached
       /\ WorkerBecomes(LimitCheck(worker, reached))

DoRepoConfig ==
  /\ WorkerAt("repo")
  /\ \E throws \in BOOLEAN, hasHostRules \in BOOLEAN, rules \in HostRuleLists :
       /\ throws => ~hasHostRules
       /\ hasHostRules \/ rules = <<>>
       /\ WorkerBecomes(RepoConfig(worker, throws, hasHostRules, rules))

DoRenovate ==
  /\ WorkerAt("renovate")
  /\ \E throws \in BOOLEAN :
       WorkerBecomes(Renovate(worker, throws))

DoReport ==
  /\ WorkerAt("report")
  /\ \E thrower \in {"none", "finalizeReport", "exportStats"} :
       WorkerBecomes(Report(worker, thrower))

DoCatch ==
  /\ WorkerAt("catch")
  /\ WorkerBecomes(Catch(worker))

DoFinalize ==
  /\ WorkerAt("finally")
  /\ \E throws \in BOOLEAN :
       WorkerBecomes(Finalize(worker, throws))

DoProblems ==
  /\ WorkerAt("problems")
  /\ \E hasErrors \in BOOLEAN :
       WorkerBecomes(Problems(worker, hasErrors))

NextWorker ==
  \/ DoStart
  \/ DoParseConfig
  \/ DoInitialize
  \/ DoDiscover
  \/ DoWriteDiscovered
  \/ DoLimitCheck
  \/ DoRepoConfig
  \/ DoRenovate
  \/ DoReport
  \/ DoCatch
  \/ DoFinalize
  \/ DoProblems

SpecWorker == Init /\ [][NextWorker]_vars

\* applyProps, one pass at a time
ApplyingBecomes(a) == applying' = a /\ UNCHANGED <<frames, worker, resolving>>

\* applyProps is called with any dependency and any property map
InitApplyProps ==
  /\ frames = [p \in {1} |-> IdleFrame]
  /\ worker = IdleWorker
  /\ resolving = IdleResolving
  /\ \E dep \in Deps, m \in PropMaps :
       applying = EnterApplyProps(dep, MavenProps(m))

DoPass ==
  /\ applying.pc = "pass"
  /\ Len(applying.seenAfter) < MaxPasses
  /\ ApplyingBecomes(Pass(applying))

DoFinish ==
  /\ applying.pc = "finish"
  /\ ApplyingBecomes(Finish(applying))

NextApplyProps ==
  \/ DoPass
  \/ DoFinish

\* applyProps is synchronous: once called it runs on
SpecApplyProps ==
  InitApplyProps /\ [][NextApplyProps]_vars /\ WF_vars(NextApplyProps)

\* resolveParents, one turn of its loops at a time
ResolvingBecomes(r) == resolving' = r /\ UNCHANGED <<frames, worker, applying>>

\* resolveParents is called with any parent graph over its package files
InitResolveParents ==
  /\ frames = [p \in {1} |-> IdleFrame]
  /\ worker = IdleWorker
  /\ applying = IdleApplying
  /\ \E packages \in PackageSets :
       resolving = EnterResolveParents(packages)

DoWalkStep ==
  /\ resolving.pc = "walk" /\ resolving.pkg # ""
  /\ ResolvingBecomes(WalkStep(resolving))

DoMergeScope ==
  /\ resolving.pc = "walk" /\ resolving.pkg = ""
  /\ ResolvingBecomes(MergeScope(resolving))

NextResolveParents ==
  \/ DoWalkStep
  \/ DoMergeScope

\* resolveParents is synchronous: once called it runs on
SpecResolveParents ==
  InitResolveParents /\ [][NextResolveParents]_vars
    /\ WF_vars(NextResolveParents)

\* two invocations in flight: the second is called while the first is
\* suspended at its await, for a different (bucket, release) pair
Buckets == {"major", "non-major"}
InitConcurrent ==
  /\ frames = [p \in Invocations |-> IdleFrame]
  /\ worker = IdleWorker
  /\ applying = IdleApplying
  /\ resolving = IdleResolving

CallConcurrent(p) ==
  /\ At(p, "idle")
  /\ \A q \in Invocations \ {p} : frames[q].pc \in {"idle", "await"}
  /\ \E config \in {BaseConfig, ConfidenceConfig}, bucket \in Buckets,
        version \in {<<MaxPart, 0, 0>>, <<0, MaxPart, 0>>} :
       LET release == MetaRelease([k \in MetaFields |-> ABSENT], version)
       IN  /\ \A q \in Invocations \ {p} :
                frames[q].pc = "idle"
                  \/ <<frames[q].bucket, frames[q].release>> # <<bucket, release>>
           /\ Becomes(p, Enter(config, "^1.0.0",
                               [hasIsBreaking |-> FALSE, matches |-> TRUE],
                               "bump", <<0, 0, 0>>, bucket, release))

NextConcurrent ==
  \E p \in Invocations :
    \/ CallConcurrent(p)
    \/ DoCopyMeta(p)
    \/ DoRewriteValue(p)
    \/ DoVersionParts(p)
    \/ DoEarlyExit(p)
    \/ DoClassify(p)
    \/ DoBreaking(p)
    \/ DoConfidence(p)
    \/ DoSettle(p)
    \/ DoFlags(p)

SpecConcurrent == InitConcurrent /\ [][NextConcurrent]_vars

----------------------------------------------------------------------------
(* Properties *)

Frames == {frames[p] : p \in DOMAIN frames}
\* the invocations that have returned their descriptor
Returned == {f \in Frames : f.pc = "returned"}
\* the returned descriptors of invocations that did not take the early exit
ReturnedFull == {f \in Returned : f.currentVersion # NoVersion}
IsTrue(obj, field) == Has(obj, field) /\ obj[field] = TRUE
\* how often, and whether, an invocation called the collaborator
Count(log, name) == Cardinality({i \in 1..Len(log) : log[i] = name})
Called(f, name) == Count(f.log, name) > 0
Answered(f, name, answer) == Has(f.ret, name) /\ f.ret[name] = answer

\* C1: every descriptor generateUpdate returns has a newValue other than the
\* null it was created with, also when getNewValue itself answers null.
C1_NewValueNeverSentinel ==
  \A f \in Returned : f.update.newValue # NULL

\* C2: when getNewValue throws, that failure is not the one generateUpdate
\* ends with; from then on newValue is currentValue, and the returned
\* descriptor carries newVersion and the new major, minor and patch.
C2_RewriteFailureFallsBack ==
  \A f \in Frames :
    Answered(f, "getNewValue", THROW) =>
      /\ ~(f.pc = "threw" /\ f.thrownBy = "getNewValue")
      /\ f.update.newValue = f.currentValue
      /\ f.pc = "returned" =>
           /\ f.update.newVersion = f.release.version
           /\ Has(f.update, "newMajor") /\ Has(f.update, "newMinor")
           /\ Has(f.update, "newPatch")
           /\ f.update.newMajor = getMajor(f.release.version)
           /\ f.update.newMinor = getMinor(f.release.version)
           /\ f.update.newPatch = getPatch(f.release.version)

C2_Witness ==
  \E f \in ReturnedFull :
    /\ Answered(f, "getNewValue", THROW)
    /\ Truthy(f.update.newValue)
    /\ Has(f.update, "updateType")

\* C3: with a falsy currentValue (undefined or empty) getNewValue is never
\* called and the returned newValue is currentValue, on the early exit and
\* on the full path.
C3_FalsyValueNotRewritten ==
  \A f \in Frames :
    (f.pc # "idle" /\ ~Truthy(f.currentValue)) =>
      /\ ~Called(f, "getNewValue")
      /\ f.pc = "returned" => f.update.newValue = f.currentValue

C3_Witness ==
  \E f \in ReturnedFull :
    /\ f.currentValue = ""
    /\ f.update.newValue = ""
    /\ Has(f.update, "updateType")

\* C4: a merge-confidence lookup that fails does not make generateUpdate
\* fail: the failure is not propagated to the caller.
C4_LookupFailureIsolated ==
  \A f \in Frames :
    Answered(f, "getMergeConfidenceLevel", THROW) => f.pc # "threw"

\* C5: with rangeStrategy bump and a scheme whose matches(newVersion,
\* currentValue) is true, the returned descriptor has isBump true and
\* isLockfileUpdate not true, whether currentVersion is present or absent.
C5_BumpForEveryCurrentVersion ==
  \A f \in Returned :
    (f.rangeStrategy = "bump" /\ f.api.matches) =>
      IsTrue(f.update, "isBump") /\ ~IsTrue(f.update, "isLockfileUpdate")

\* C5 (amended): the same for a present currentVersion.
C5_BumpWhenCurrentVersionPresent ==
  \A f \in ReturnedFull :
    (f.rangeStrategy = "bump" /\ f.api.matches) =>
      IsTrue(f.update, "isBump") /\ ~IsTrue(f.update, "isLockfileUpdate")

C5_Witness ==
  \E f \in ReturnedFull :
    /\ f.rangeStrategy = "bump" /\ f.api.matches
    /\ f.update.newValue = f.currentValue
    /\ IsTrue(f.update, "isBump")

\* C6: with rangeStrategy update-lockfile and a returned newValue equal to
\* currentValue, the returned descriptor has isLockfileUpdate true, whether
\* currentVersion is present or absent.
C6_LockfileForEveryCurrentVersion ==
  \A f \in Returned :
    (f.rangeStrategy = "update-lockfile" /\ f.update.newValue = f.currentValue) =>
      IsTrue(f.update, "isLockfileUpdate")

\* C6 (amended): the same for a present currentVersion.
C6_LockfileWhenCurrentVersionPresent ==
  \A f \in ReturnedFull :
    (f.rangeStrategy = "update-lockfile" /\ f.update.newValue = f.currentValue) =>
      IsTrue(f.update, "isLockfileUpdate")

C6_Witness ==
  \E f \in ReturnedFull :
    /\ f.rangeStrategy = "update-lockfile"
    /\ Answered(f, "getNewValue", "^1.0.0")
    /\ f.update.newValue = f.currentValue
    /\ IsTrue(f.update, "isLockfileUpdate")

\* C7: no descriptor has both isLockfileUpdate and isBump true.
C7_NotBothLockfileAndBump ==
  \A f \in Frames :
    ~(IsTrue(f.update, "isLockfileUpdate") /\ IsTrue(f.update, "isBump"))

\* the value is unchanged and the scheme's matches is true, so that only
\* rangeStrategy keeps the two flags apart
C7_Witness ==
  \E f \in ReturnedFull :
    /\ f.update.newValue = f.currentValue
    /\ f.api.matches
    /\ IsTrue(f.update, "isLockfileUpdate")
    /\ ~Has(f.update, "isBump")

\* C8: isLockfileUpdate true implies rangeStrategy update-lockfile and
\* newValue equal to currentValue; isBump true implies rangeStrategy bump
\* and that matches(newVersion, currentValue) was called and returned true.
C8_FlagsImplyStrategy ==
  \A f \in Frames :
    /\ IsTrue(f.update, "isLockfileUpdate") =>
         /\ f.rangeStrategy = "update-lockfile"
         /\ f.update.newValue = f.currentValue
    /\ IsTrue(f.update, "isBump") =>
         /\ f.rangeStrategy = "bump"
         /\ Answered(f, "matches", "true")

C8_Witness ==
  \E f \in ReturnedFull :
    /\ IsTrue(f.update, "isBump")
    /\ f.update.newValue # f.currentValue
    /\ ~Has(f.update, "isLockfileUpdate")

\* C9: when the new version's major is greater than the current version's,
\* the returned descriptor has updateType major and, for a scheme without
\* isBreaking, isBreaking true.
C9_MajorIsClassifiedMajor ==
  \A f \in ReturnedFull :
    getMajor(f.release.version) > getMajor(f.currentVersion) =>
      /\ Has(f.update, "updateType") /\ f.update.updateType = "major"
      /\ ~f.api.hasIsBreaking => IsTrue(f.update, "isBreaking")

C9_Witness ==
  \E f \in ReturnedFull :
    /\ getMajor(f.release.version) > getMajor(f.currentVersion)
    /\ ~f.api.hasIsBreaking
    /\ f.update.updateType = "major"
    /\ IsTrue(f.update, "isBreaking")

\* C10: with a scheme that has isBreaking, the descriptor's isBreaking is
\* what the scheme answered, whatever the updateType; without it, isBreaking
\* is true exactly when updateType is major.
C10_BreakingDelegatesOrFallsBack ==
  \A f \in Frames :
    Has(f.update, "isBreaking") =>
      IF f.api.hasIsBreaking
      THEN /\ Count(f.log, "isBreaking") = 1
           /\ f.update.isBreaking = Answered(f, "isBreaking", "true")
      ELSE /\ ~Called(f, "isBreaking")
           /\ f.update.isBreaking = (f.update.updateType = "major")

\* a major update the scheme calls non-breaking
C10_Witness ==
  \E f \in ReturnedFull :
    /\ f.api.hasIsBreaking
    /\ f.update.updateType = "major"
    /\ f.update.isBreaking = FALSE

\* the returned descriptors of invocations that took the early exit
ReturnedEarly == {f \in Returned : f.currentVersion = NoVersion}

\* C11: a returned descriptor that carries an updateType carries a boolean
\* isBreaking; isBreaking is absent only on the early exit's descriptors,
\* which carry no updateType.
C11_BreakingPresentWithUpdateType ==
  \A f \in Returned :
    /\ Has(f.update, "updateType") =>
         Has(f.update, "isBreaking") /\ f.update.isBreaking \in BOOLEAN
    /\ ~Has(f.update, "isBreaking") =>
         f \in ReturnedEarly /\ ~Has(f.update, "updateType")

C11_Witness ==
  \E f \in ReturnedFull :
    /\ ~f.api.hasIsBreaking
    /\ f.update.updateType = "minor"
    /\ f.update.isBreaking = FALSE

\* some rule of config.packageRules has a non-empty matchConfidence list
HasConfidenceRule(config) ==
  /\ Has(config, "packageRules")
  /\ \E i \in DOMAIN config.packageRules :
       /\ Has(config.packageRules[i], "matchConfidence")
       /\ config.packageRules[i].matchConfidence # <<>>

\* C12: the merge-confidence lookup is invoked, and mergeConfidenceLevel
\* set, only if some rule of config.packageRules has a non-empty
\* matchConfidence list; the lookup gets (datasource, packageName,
\* currentVersion, newVersion, updateType) and its result is what is set.
C12_LookupOnlyWhenRequested ==
  \A f \in Frames :
    /\ (Called(f, "getMergeConfidenceLevel")
          \/ Has(f.update, "mergeConfidenceLevel")) => HasConfidenceRule(f.config)
    /\ Called(f, "getMergeConfidenceLevel") =>
         /\ Count(f.log, "getMergeConfidenceLevel") = 1
         /\ f.lookup = <<f.config.datasource, f.config.packageName,
                         f.currentVersion, f.release.version,
                         f.update.updateType>>
    /\ Has(f.update, "mergeConfidenceLevel") =>
         /\ Called(f, "getMergeConfidenceLevel")
         /\ f.update.mergeConfidenceLevel = f.ret["getMergeConfidenceLevel"]

C12_Witness ==
  \E f \in ReturnedFull :
    /\ HasConfidenceRule(f.config)
    /\ Has(f.update, "mergeConfidenceLevel")
    /\ f.update.mergeConfidenceLevel = "high"

\* C13: with currentVersion absent generateUpdate returns at the early exit
\* with newValue equal to currentValue, whatever getNewValue produced; the
\* classifier, isBreaking, isVersion, matches and the merge-confidence
\* lookup are not called and updateType, isBreaking, mergeConfidenceLevel,
\* isRange, isLockfileUpdate and isBump are absent.
C13_EarlyExitDoesNothingMore ==
  \A f \in Frames :
    (f.pc # "idle" /\ f.currentVersion = NoVersion) =>
      /\ f.pc \in {"meta", "rewrite", "parts", "guard", "returned", "threw"}
      /\ \A name \in {"getUpdateType", "isBreaking", "isVersion", "matches",
                      "getMergeConfidenceLevel"} : ~Called(f, name)
      /\ \A field \in {"updateType", "isBreaking", "mergeConfidenceLevel",
                       "isRange", "isLockfileUpdate", "isBump"} :
           ~Has(f.update, field)
      /\ f.pc = "returned" => f.update.newValue = f.currentValue

\* getNewValue produced another value, which the early exit overrides
C13_Witness ==
  \E f \in ReturnedEarly :
    /\ Answered(f, "getNewValue", "^2.0.0")
    /\ f.update.newValue = "^1.0.0"
    /\ f.currentValue = "^1.0.0"

\* C15: apart from the range rewrite no step throws outward: a failure of
\* getMajor, getMinor, getPatch, isVersion, matches, isBreaking or the
\* classifier is not the failure generateUpdate ends with.
C15_NoStepThrowsOutward ==
  \A f \in Frames :
    ~(/\ f.pc = "threw"
      /\ f.thrownBy \in {"getMajor", "getMinor", "getPatch", "isVersion",
                         "matches", "isBreaking", "getUpdateType"})

\* C18: on every path past the early exit isVersion is asked once, about
\* the descriptor's final newValue, and isRange is true exactly when it
\* answered false.
C18_RangeIffNotVersion ==
  \A f \in ReturnedFull :
    /\ Count(f.log, "isVersion") = 1
    /\ Answered(f, "isVersion.arg", f.update.newValue)
    /\ IsTrue(f.update, "isRange") <=> Answered(f, "isVersion", "false")
    /\ Has(f.update, "isRange") => f.update.isRange = TRUE

\* a falsy newValue that the scheme does not take for a version
C18_Witness ==
  \E f \in ReturnedFull :
    /\ f.update.newValue = UNDEFINED
    /\ Answered(f, "isVersion", "false")
    /\ IsTrue(f.update, "isRange")

\* C14: the classifier is called at most once, and not at all when the
\* caller supplied an update type: the returned updateType is then the
\* supplied one.
C14_SuppliedTypeNotReclassified ==
  \A f \in Frames :
    /\ Count(f.log, "getUpdateType") <= 1
    /\ Has(f.config, "updateType") =>
         /\ ~Called(f, "getUpdateType")
         /\ f \in ReturnedFull => f.update.updateType = f.config.updateType

\* the field reads as something other than undefined
Present(obj, field) == Has(obj, field) /\ obj[field] # UNDEFINED

\* C17: each of checksumUrl, downloadUrl, newDigest and registryUrl is on
\* the returned descriptor exactly when the release has it, with the
\* release's value, on the early exit and on the full path alike; a field
\* the release does not have is not on the descriptor, not even as null or
\* the empty string.
C17_MetadataPassedThrough ==
  \A f \in Returned :
    \A field \in MetaFields :
      /\ Has(f.update, field) <=> Present(f.release, field)
      /\ Has(f.update, field) => f.update[field] = f.release[field]

\* an early exit and a full return, each with some fields there and others not
C17_Witness ==
  /\ \E f \in ReturnedEarly :
       /\ Has(f.update, "newDigest") /\ f.update.newDigest = "sha256:cd"
       /\ Has(f.update, "downloadUrl") /\ f.update.downloadUrl = ""
       /\ Has(f.release, "checksumUrl") /\ ~Has(f.update, "checksumUrl")
       /\ ~Has(f.release, "registryUrl") /\ ~Has(f.update, "registryUrl")

\* the logged answer of a collaborator, or a default where none was asked
AnswerOr(f, name, default) == IF Has(f.ret, name) THEN f.ret[name] ELSE default
ThrowerOf(f) ==
  IF Answered(f, "getMajor", THROW) THEN "getMajor"
  ELSE IF Answered(f, "getMinor", THROW) THEN "getMinor"
  ELSE IF Answered(f, "getPatch", THROW) THEN "getPatch"
  ELSE "none"
\* the frame an invocation ends with when it runs alone from f's arguments
\* and its collaborators answer what they answered f
RunAlone(f) ==
  LET f1 == CopyMeta(Enter(f.config, f.currentValue, f.api, f.rangeStrategy,
                           f.currentVersion, f.bucket, f.release))
      f2 == RewriteValue(f1, AnswerOr(f, "getNewValue", NULL))
      f3 == VersionParts(f2, ThrowerOf(f))
      f4 == EarlyExit(f3)
      f5 == Classify(f4, AnswerOr(f, "getUpdateType", "patch"))
      f6 == Breaking(f5, AnswerOr(f, "isBreaking", "true"))
      f7 == Confidence(f6)
      f8 == IF f7.pc = "await"
            THEN Settle(f7, AnswerOr(f, "getMergeConfidenceLevel", UNDEFINED))
            ELSE f7
      f9 == Flags(f8, AnswerOr(f, "isVersion", "true"),
                  Answered(f, "matches", THROW))
  IN  IF f3.pc = "threw" THEN f3
      ELSE IF f4.pc = "returned" THEN f4
      ELSE IF f6.pc = "threw" THEN f6
      ELSE IF f8.pc = "threw" THEN f8
      ELSE f9

CallsOf(w, call) == SelectSeq(w.log, LAMBDA e : e.call = call)
\* the position in the log of the k-th call of a collaborator
PositionOf(w, call, k) ==
  CHOOSE i \in 1..Len(w.log) :
    /\ w.log[i].call = call
    /\ Cardinality({j \in 1..i : w.log[j].call = call}) = k

\* C19: whichever way start() ends (normally, with the return after the
\* discovered repositories are written, after an error in a repository,
\* after an error before config was assigned), globalFinalize has been
\* called exactly once by then, and it is never called twice.
C19_FinalizedOnceOnEveryPath ==
  /\ Len(CallsOf(worker, "globalFinalize")) <= 1
  /\ worker.pc \in {"problems", "returned", "threw"} =>
       Len(CallsOf(worker, "globalFinalize")) = 1
  /\ worker.pc \in {"idle", "config", "init", "discover", "write", "loop",
                    "repo", "renovate", "report", "catch", "finally"} =>
       /\ Len(CallsOf(worker, "globalFinalize")) = 0
       /\ worker.result = -1

\* start() returned 2: getGlobalConfig threw, config was never assigned
C19_Witness ==
  /\ worker.pc = "returned" /\ worker.result = 2
  /\ Missing(worker.config)
  /\ Len(CallsOf(worker, "getGlobalConfig")) = 1
  /\ CallsOf(worker, "getGlobalConfig")[1].answer = THROW
  /\ Len(CallsOf(worker, "globalFinalize")) = 1

\* C20: the repositories passed to renovateRepository are, in order, the
\* first ones of config.repositories; each is passed after its own limit
\* check answered false and after the one before it was done; after a
\* limit check that answers true there is no further check and no further
\* repository, and finalizeReport and exportStats are the next calls.
C20_SequentialUntilLimit ==
  LET done == CallsOf(worker, "renovateRepository")
      checks == CallsOf(worker, "isLimitReached")
  IN  /\ \A k \in 1..Len(done) :
           /\ k <= Len(worker.config.repositories)
           /\ done[k].about = worker.config.repositories[k]
           /\ checks[k].answer = "false"
           /\ PositionOf(worker, "isLimitReached", k)
                < PositionOf(worker, "renovateRepository", k)
           /\ k > 1 => /\ done[k - 1].answer = "ok"
                       /\ PositionOf(worker, "renovateRepository", k - 1)
                            < PositionOf(worker, "isLimitReached", k)
      /\ Len(done) <= Len(checks)
      /\ \A i \in 1..Len(worker.log) :
           (worker.log[i].call = "isLimitReached" /\ worker.log[i].answer = "true") =>
             /\ \A j \in (i + 1)..Len(worker.log) :
                  worker.log[j].call \notin
                    {"isLimitReached", "getRepositoryConfig", "renovateRepository"}
             /\ worker.pc # "report" =>
                  /\ Len(worker.log) > i
                  /\ worker.log[i + 1].call = "finalizeReport"
                  /\ worker.log[i + 1].answer = "ok" =>
                       /\ Len(worker.log) > i + 1
                       /\ worker.log[i + 2].call = "exportStats"

\* the limit is reached after the first of two repositories
C20_Witness ==
  /\ worker.pc = "returned" /\ ~Missing(worker.config)
  /\ worker.config.repositories = <<"org/a", "org/b">>
  /\ Len(CallsOf(worker, "renovateRepository")) = 1
  /\ CallsOf(worker, "renovateRepository")[1].about = "org/a"
  /\ Len(CallsOf(worker, "isLimitReached")) = 2
  /\ CallsOf(worker, "isLimitReached")[2].answer = "true"
  /\ Len(CallsOf(worker, "exportStats")) = 1

\* C21: start() returns 2 only after an error raised before config was
\* assigned; once the list of discovered repositories is written without
\* error it returns 0, having processed no repository and without asking
\* for the logged problems; in every other case, errors after config was
\* assigned included, it returns 1 if problems of level ERROR or higher
\* were logged and 0 if none were.
C21_ExitCodes ==
  worker.pc = "returned" =>
    LET written == \E i \in 1..Len(worker.log) :
                     /\ worker.log[i].call = "writeFile"
                     /\ worker.log[i].answer = "ok"
        problems == CallsOf(worker, "getProblems")
    IN  /\ worker.result \in {0, 1, 2}
        /\ worker.result = 2 <=> Missing(worker.config)
        /\ Missing(worker.config) =>
             /\ CallsOf(worker, "getGlobalConfig")[1].answer = THROW
             /\ problems = <<>>
        /\ written =>
             /\ worker.result = 0
             /\ problems = <<>>
             /\ CallsOf(worker, "getRepositoryConfig") = <<>>
             /\ CallsOf(worker, "renovateRepository") = <<>>
        /\ (~written /\ ~Missing(worker.config)) =>
             /\ Len(problems) = 1
             /\ worker.result = (IF problems[1].answer = "errors" THEN 1 ELSE 0)

\* writeDiscoveredRepos is set but the write fails: the problems decide
C21_Witness ==
  /\ worker.pc = "returned" /\ ~Missing(worker.config)
  /\ worker.config.writeDiscoveredRepos # ""
  /\ Len(CallsOf(worker, "writeFile")) = 1
  /\ CallsOf(worker, "writeFile")[1].answer = THROW
  /\ worker.result = 1

\* C21 as stated: whenever writeDiscoveredRepos is a non-empty string,
\* start() writes the list and returns 0 without asking for the problems.
C21_WriteAlwaysReturnsZero ==
  (/\ worker.pc = "returned" /\ ~Missing(worker.config)
   /\ worker.config.writeDiscoveredRepos # "") =>
    /\ Len(CallsOf(worker, "writeFile")) = 1
    /\ worker.result = 0
    /\ CallsOf(worker, "getProblems") = <<>>

\* C22: renovateRepository is called right after queue.clear() and
\* throttle.clear(), which follow the building of that repository's
\* config; when it is about to be called the queue and the throttle are
\* empty, and the host rules were replaced for this repository exactly when
\* its config carries hostRules: then they were cleared and are the rules
\* added since, in their order.
C22_HttpStateResetPerRepository ==
  /\ \A i \in 1..Len(worker.log) :
       worker.log[i].call = "renovateRepository" =>
         /\ i > 3
         /\ worker.log[i - 1].call = "throttle.clear"
         /\ worker.log[i - 2].call = "queue.clear"
         /\ worker.log[i - 1].about = worker.log[i].about
         /\ worker.log[i - 2].about = worker.log[i].about
         /\ \E j \in 1..(i - 3) :
              /\ worker.log[j].call = "getRepositoryConfig"
              /\ worker.log[j].about = worker.log[i].about
              /\ worker.log[j].answer = "ok"
              /\ \A k \in (j + 1)..(i - 3) :
                   worker.log[k].call \in {"hostRules.clear", "hostRules.add"}
  /\ worker.pc = "renovate" =>
       LET n == Len(worker.log)
           j == PositionOf(worker, "getRepositoryConfig",
                           Len(CallsOf(worker, "getRepositoryConfig")))
       IN  /\ worker.queue = "" /\ worker.throttle = ""
           /\ Has(worker.repoConfig, "hostRules") <=>
                worker.hostRules.from = worker.index
           /\ Has(worker.repoConfig, "hostRules") =>
                /\ worker.log[j + 1].call = "hostRules.clear"
                /\ \A k \in (j + 2)..(n - 2) : worker.log[k].call = "hostRules.add"
                /\ worker.hostRules.rules =
                     [k \in 1..(n - 3 - j) |-> worker.log[j + 1 + k].about]
           /\ ~Has(worker.repoConfig, "hostRules") => j = n - 2

\* the second repository replaces the host rules the first one brought
C22_Witness ==
  /\ worker.pc = "renovate" /\ worker.index = 2
  /\ worker.hostRules = [rules |-> <<"h2">>, from |-> 2]
  /\ \E i \in 1..Len(worker.log) :
       worker.log[i].call = "hostRules.add" /\ worker.log[i].about = "h1"
  /\ worker.queue = "" /\ worker.throttle = ""

\* applyProps has returned, after at most one pass more than there are
\* properties; every pass before the last one left a new key in
\* alreadySeenProps; a last pass that was fatal returned the dependency it
\* was given with skipReason recursive-placeholder
ApplyPropsEnded ==
  LET n == Len(applying.seenAfter)
      Before(k) == IF k = 1 THEN {} ELSE applying.seenAfter[k - 1]
  IN  /\ applying.pc = "done"
      /\ n >= 1 /\ n <= Cardinality(DOMAIN applying.props) + 1
      /\ \A k \in 1..(n - 1) :
           /\ Before(k) \subseteq applying.seenAfter[k]
           /\ Before(k) # applying.seenAfter[k]
      /\ applying.seenAfter[n] \subseteq DOMAIN applying.props
      /\ applying.fatal =>
           applying.out = Put(applying.dep, "skipReason", "recursive-placeholder")
      /\ ~applying.fatal => ~applying.anyChange

\* C23: applyProps terminates for every property map, cyclic ones included:
\* every run ends, within one pass more than the map has properties, each
\* earlier pass having added a key to the seen properties, and a pass that
\* substitutes a property of an earlier pass returns the original
\* dependency with skipReason recursive-placeholder.
C23_ApplyPropsTerminates == <>ApplyPropsEnded

\* two properties that reference each other: the third pass is fatal
C23_Witness ==
  /\ applying.pc = "done" /\ applying.fatal
  /\ DOMAIN applying.props = {"a", "b"}
  /\ applying.props["a"].val = <<"${b}">>
  /\ applying.props["b"].val = <<"${a}">>
  /\ Len(applying.seenAfter) = 3
  /\ applying.out.skipReason = "recursive-placeholder"
  /\ applying.out.currentValue = applying.dep.currentValue

\* every scope is built: each walk began at its own file and passed at most
\* one file more than there are package files, and in each file's scope a
\* property the file defines has the file's own definition
ResolveParentsEnded ==
  /\ resolving.pc = "done"
  /\ \A name \in PackageFileSet :
       /\ Len(resolving.walks[name]) \in 1..(Cardinality(PackageFileSet) + 1)
       /\ resolving.walks[name][1] = name
       /\ \A key \in DOMAIN resolving.extractedPackages[name].mavenProps :
            /\ key \in DOMAIN resolving.extractedProps[name]
            /\ resolving.extractedProps[name][key] =
                 resolving.extractedPackages[name].mavenProps[key]

\* C24: the walk up the parent chain ends for every parent graph, a file
\* that is its own parent and files that are each other's parents
\* included, and in the merged scope of a package file a property defined
\* in that file wins over the same property of any ancestor.
C24_ResolveParentsTerminates == <>ResolveParentsEnded

\* two files that name each other as parent and define the same property,
\* and a third that is its own parent
C24_Witness ==
  LET ParentIs(name, parent) ==
        /\ Has(resolving.extractedPackages[name], "parent")
        /\ resolving.extractedPackages[name].parent = parent
      OwnInScope(name) ==
        /\ Has(resolving.extractedPackages[name].mavenProps, "v")
        /\ resolving.extractedProps[name].v.packageFile = name
  IN  /\ resolving.pc = "done"
      /\ ParentIs("pom.xml", "child/pom.xml")
      /\ ParentIs("child/pom.xml", "pom.xml")
      /\ ParentIs("lib/pom.xml", "lib/pom.xml")
      /\ resolving.walks["pom.xml"] = <<"pom.xml", "child/pom.xml", "pom.xml">>
      /\ resolving.walks["lib/pom.xml"] = <<"lib/pom.xml", "lib/pom.xml">>
      /\ OwnInScope("pom.xml")
      /\ OwnInScope("child/pom.xml")

====
